---- MODULE Spec2Model ----
(***************************************************************************)
(* Loopi (src/src/index.ts): a game loop driven by the host's              *)
(* requestAnimationFrame.  The model holds the fields of LoopiClass, the   *)
(* host's table of pending animation-frame callbacks, and the position of  *)
(* the frame callback (_update) inside its pass over the events.           *)
(*                                                                         *)
(* Numbers.  _ticks and _unpausedTicks are kept in thousandths of a tick,  *)
(* so that "(tps * deltaTime) / 1000" is the exact integer tps * deltaTime *)
(* for integer rates and millisecond timestamps.                           *)
(*                                                                         *)
(* Callbacks.  condition and action are caller-supplied functions.  Each   *)
(* call may call one public operation of the instance and return (either   *)
(* boolean, for a condition), or throw.  _randNum (Math.random) is read by *)
(* no operation and is left out.                                           *)
(*                                                                         *)
(* Two specifications run the same actions on different inputs.  Spec      *)
(* exercises the registry and the pass over the events, with the default   *)
(* tick rate and a host clock that advances one millisecond per frame.     *)
(* SpecClock exercises the time keeping, with every tick rate and every    *)
(* non-decreasing timestamp, and callbacks that call nothing.              *)
(***************************************************************************)
EXTENDS Integers, Sequences, FiniteSets, TLC

\* ---------------------------------------------------------------- bounds
\* Largest timestamp the host hands to the frame callback (SpecClock).
MaxTime == 3
\* Most calls of window.requestAnimationFrame in one run.
MaxRequests == 4
\* Most events in the registry at once.
MaxEvents == 2
\* Most addEvent calls in one run (event identities 1..MaxIds).
MaxIds == 2

\* ------------------------------------------------------------- constants
\* Object.assign({ randomNumberCeiling: 101, ticksPerSecond: 1 }, options)
DefaultTicksPerSecond == 1

\* An optional argument: left out, or given.
Undefined == [defined |-> FALSE]
Some(v) == [defined |-> TRUE, value |-> v]

\* Tick rates a caller passes (options.ticksPerSecond, changeTps).
Rates == {-1, 2}
Timestamps == 0..MaxTime
RemoveIndices == -1..MaxEvents
RunWhileArgs == {Some(TRUE), Some(FALSE), Undefined}

VARIABLES
  pc,                        \* "start" | "failed" | "idle" | "loop" | "action"
  _optionsTps,               \* this._options.ticksPerSecond
  _requestAnimationFrameId,
  _paused,
  _lastTime,
  _ticks,
  _ticksPerSecond,
  _events,
  _unpausedTimestamp,
  _unpausedLastTime,
  _unpausedDeltaTime,
  _unpausedTicks,
  rafPending,                \* host: handles of the callbacks not yet run
  rafCount,                  \* host: requestAnimationFrame calls so far
  iter,                      \* the for...of loop of _update
  nextId,                    \* identity of the next event object created
  ended,                     \* history: endLoop has been called
  threw,                     \* history: a callback threw out of _update
  log,                       \* history: callback calls of the latest frame
  fired,                     \* history: events fired, condition not false since
  refired,                   \* history: a one-shot in fired has fired again
  quiet,                     \* history: frames run since an outside addEvent
                             \* in which every condition returned true and
                             \* no callback called an operation; else -1
  gateOpen,                  \* history: events of the latest frame whose
                             \* condition returned while the loop was not
                             \* paused
  stampHanded                \* history: the timestamp the host handed to the
                             \* latest frame callback

vars == <<pc, _optionsTps, _requestAnimationFrameId, _paused, _lastTime,
          _ticks, _ticksPerSecond, _events, _unpausedTimestamp,
          _unpausedLastTime, _unpausedDeltaTime, _unpausedTicks, rafPending,
          rafCount, iter, nextId, ended, threw, log, fired, refired, quiet,
          gateOpen, stampHanded>>

timing == <<_lastTime, _ticks, _ticksPerSecond, _unpausedTimestamp,
            _unpausedLastTime, _unpausedDeltaTime, _unpausedTicks, stampHanded>>

NoEvent == [id |-> 0, runWhile |-> FALSE, _isActive |-> FALSE]

\* No pass in progress.  idx: the iterator's next index; detached: the
\* iterated array is no longer this._events, and arr holds it; event: the
\* loop variable; removed (history): a callback of this pass has called
\* removeEvent or removeEventAll; cleared (history): an action of this pass
\* has called removeEventAll; skipped (history): the events that stood right
\* after the running event in the registry when its action removed an event
\* at or before its own position.
NoIter ==
  [idx |-> 0, detached |-> FALSE, arr |-> <<>>, event |-> NoEvent,
   removed |-> FALSE, cleared |-> FALSE, skipped |-> {}]

Max(a, b) == IF a > b THEN a ELSE b
Min(a, b) == IF a < b THEN a ELSE b

\* ------------------------------------------------------- array built-ins
\* Mutant: one element more deleted than asked for.
Splice_Two(arr, start, deleteCount) ==
  LET len   == Len(arr)
      from  == IF start < 0 THEN Max(len + start, 0) ELSE Min(start, len)
      count == Min(Max(deleteCount + 1, 0), len - from)
  IN  [i \in 1..(len - count) |-> IF i <= from THEN arr[i] ELSE arr[i + count]]

\* Array.prototype.splice(start, deleteCount): the array left behind.
Splice(arr, start, deleteCount) ==
  LET len   == Len(arr)
      from  == IF start < 0 THEN Max(len + start, 0) ELSE Min(start, len)
      count == Min(Max(deleteCount, 0), len - from)
  IN  [i \in 1..(len - count) |-> IF i <= from THEN arr[i] ELSE arr[i + count]]

\* Mutant: the new element goes to the front (unshift for push).
Push_Front(arr, e) == <<e>> \o arr

\* Array.prototype.push(e): the array afterwards.
Push(arr, e) == Append(arr, e)

\* event._isActive = v, on the event object of identity id wherever it is held.
SetActive(arr, id, v) ==
  [i \in 1..Len(arr) |-> IF arr[i].id = id THEN [arr[i] EXCEPT !._isActive = v]
                                           ELSE arr[i]]

\* ------------------------------------------------------------ the instance
\* The part of the state a public operation reads or writes, as one record.
World ==
  [pc |-> pc, events |-> _events, paused |-> _paused, optTps |-> _optionsTps,
   rafId |-> _requestAnimationFrameId, pending |-> rafPending,
   count |-> rafCount, iter |-> iter, nextId |-> nextId, ended |-> ended]

Store(w) ==
  /\ pc' = w.pc
  /\ _events' = w.events
  /\ _paused' = w.paused
  /\ _optionsTps' = w.optTps
  /\ _requestAnimationFrameId' = w.rafId
  /\ rafPending' = w.pending
  /\ rafCount' = w.count
  /\ iter' = w.iter
  /\ nextId' = w.nextId
  /\ ended' = w.ended

\* Mutant: two callbacks requested where the code requests one.
Request_Twice(w) ==
  [w EXCEPT !.count = w.count + 2,
            !.pending = w.pending \cup {w.count + 1, w.count + 2},
            !.rafId = w.count + 2]

\* window.requestAnimationFrame(cb), its handle stored in
\* _requestAnimationFrameId.
Request(w) ==
  [w EXCEPT !.count = w.count + 1,
            !.pending = w.pending \cup {w.count + 1},
            !.rafId = w.count + 1]

\* Mutant: an omitted runWhile stored as true.
RunWhileDefault_True(runWhile) ==
  IF runWhile = Undefined THEN TRUE ELSE runWhile.value

\* runWhile as addEvent stores it.
RunWhileDefault(runWhile) ==
  IF runWhile = Undefined THEN FALSE ELSE runWhile.value

NewEvent(id, runWhile) ==
  [id |-> id, runWhile |-> RunWhileDefault(runWhile), _isActive |-> FALSE]

addEvent(w, runWhile) ==
  [w EXCEPT !.events = Push(w.events, NewEvent(w.nextId, runWhile)),
            !.nextId = w.nextId + 1]

\* Mutant: the last event removed whatever the index.
removeEvent_Last(w, index) ==
  [w EXCEPT !.events = Splice(w.events, Len(w.events) - 1, 1)]

removeEvent(w, index) == [w EXCEPT !.events = Splice(w.events, index, 1)]

\* this._events = []: a new array.  A pass of _update that is iterating the
\* old array keeps iterating it.
removeEventAll(w) ==
  [w EXCEPT !.events = <<>>,
            !.iter = IF w.pc \in {"loop", "action"} /\ ~w.iter.detached
                       THEN [w.iter EXCEPT !.detached = TRUE, !.arr = w.events]
                       ELSE w.iter]

\* Mutant: pausing also cancels the pending frame request.
pauseGame_Cancels(w) ==
  [w EXCEPT !.paused = TRUE, !.pending = w.pending \ {w.rafId}]

pauseGame(w) == [w EXCEPT !.paused = TRUE]

resumeGame(w) == [w EXCEPT !.paused = FALSE]

changeTps(w, newTicksPerSecond) == [w EXCEPT !.optTps = newTicksPerSecond]

\* window.cancelAnimationFrame(this._requestAnimationFrameId)
endLoop(w) == [w EXCEPT !.pending = w.pending \ {w.rafId}, !.ended = TRUE]

\* --------------------------------------------------------------- the calls
\* The public operations a caller can invoke, with tick rates from rates.
Calls(rates) ==
  {[op |-> "addEvent", runWhile |-> r] : r \in RunWhileArgs}
  \cup {[op |-> "removeEvent", index |-> i] : i \in RemoveIndices}
  \cup {[op |-> "changeTps", rate |-> r] : r \in rates}
  \cup {[op |-> o] : o \in {"removeEventAll", "pauseGame", "resumeGame",
                            "endLoop"}}

\* The model's bounds on the registry.
CanCall(w, c) ==
  c.op = "addEvent" => (Len(w.events) < MaxEvents /\ w.nextId <= MaxIds)

Apply(w, c) ==
  CASE c.op = "addEvent"       -> addEvent(w, c.runWhile)
    [] c.op = "removeEvent"    -> removeEvent(w, c.index)
    [] c.op = "removeEventAll" -> removeEventAll(w)
    [] c.op = "pauseGame"      -> pauseGame(w)
    [] c.op = "resumeGame"     -> resumeGame(w)
    [] c.op = "changeTps"      -> changeTps(w, c.rate)
    [] c.op = "endLoop"        -> endLoop(w)
    [] OTHER                   -> w

Quiet == [op |-> "none"]
Throw == [op |-> "throw"]

\* What one call of a caller-supplied callback may do besides returning.
Behaviours(rates) == Calls(rates) \cup {Quiet, Throw}

\* ------------------------------------------------------------ construction
Init ==
  /\ pc = "start"
  /\ _optionsTps = DefaultTicksPerSecond
  /\ _requestAnimationFrameId = 0
  /\ _paused = FALSE
  /\ _lastTime = 0
  /\ _ticks = 0
  /\ _ticksPerSecond = DefaultTicksPerSecond
  /\ _events = <<>>
  /\ _unpausedTimestamp = 0
  /\ _unpausedLastTime = 0
  /\ _unpausedDeltaTime = 0
  /\ _unpausedTicks = 0
  /\ rafPending = {}
  /\ rafCount = 0
  /\ iter = NoIter
  /\ nextId = 1
  /\ ended = FALSE
  /\ threw = FALSE
  /\ log = <<>>
  /\ fired = {}
  /\ refired = FALSE
  /\ quiet = -1
  /\ gateOpen = {}
  /\ stampHanded = 0

\* Object.assign({ ..., ticksPerSecond: 1 }, options).ticksPerSecond
OptionTps(given) ==
  IF given = Undefined THEN DefaultTicksPerSecond ELSE given.value

\* Mutant: the missing `window` noticed only after the first request.
ConstructFails_AfterRequest ==
  /\ pc = "start"
  /\ pc' = "failed"
  /\ rafCount' = rafCount + 1
  /\ rafPending' = rafPending \cup {rafCount + 1}
  /\ UNCHANGED <<_optionsTps, _requestAnimationFrameId, _paused, _events,
                 iter, nextId, ended, threw, log, fired, refired, quiet,
                 gateOpen, timing>>

\* new LoopiClass(options) where the global `window` is missing: throws.
ConstructFails ==
  /\ pc = "start"
  /\ pc' = "failed"
  /\ UNCHANGED <<_optionsTps, _requestAnimationFrameId, _paused, _events,
                 rafPending, rafCount, iter, nextId, ended, threw, log, fired,
                 refired, quiet, gateOpen, timing>>

\* new LoopiClass(options) in a browser, options.ticksPerSecond from givens.
Construct(givens) ==
  /\ pc = "start"
  /\ \E given \in givens :
       /\ _optionsTps' = OptionTps(given)
       /\ _ticksPerSecond' = OptionTps(given)
  /\ _paused' = FALSE
  /\ _lastTime' = 0
  /\ _ticks' = 0
  /\ _events' = <<>>
  /\ _unpausedTimestamp' = 0
  /\ _unpausedLastTime' = 0
  /\ _unpausedDeltaTime' = 0
  /\ _unpausedTicks' = 0
  /\ LET w == Request(World)
     IN  /\ rafPending' = w.pending
         /\ rafCount' = w.count
         /\ _requestAnimationFrameId' = w.rafId
  /\ pc' = "idle"
  /\ UNCHANGED <<iter, nextId, ended, threw, log, fired, refired, quiet,
                 gateOpen, stampHanded>>

\* ------------------------------------------- public operations, between frames
\* The identities of the event objects the instance still holds.
Live(w) ==
  {w.events[i].id : i \in 1..Len(w.events)}
  \cup {w.iter.arr[i].id : i \in 1..Len(w.iter.arr)}
  \cup {w.iter.event.id}

\* A call c made from outside the frame callback.
Outside(c) ==
  /\ CanCall(World, c)
  /\ Store(Apply(World, c))
  /\ quiet' = IF c.op = "addEvent" THEN 0 ELSE -1
  /\ log' = <<>>
  /\ gateOpen' = {}
  /\ fired' = fired \cap Live(Apply(World, c))
  /\ UNCHANGED <<timing, threw, refired>>

AddEvent(args) ==
  /\ pc = "idle"
  /\ \E r \in args : Outside([op |-> "addEvent", runWhile |-> r])

RemoveEvent(indices) ==
  /\ pc = "idle"
  /\ \E i \in indices : Outside([op |-> "removeEvent", index |-> i])

RemoveEventAll ==
  /\ pc = "idle"
  /\ Outside([op |-> "removeEventAll"])

PauseGame ==
  /\ pc = "idle"
  /\ Outside([op |-> "pauseGame"])

ResumeGame ==
  /\ pc = "idle"
  /\ Outside([op |-> "resumeGame"])

ChangeTps(rates) ==
  /\ pc = "idle"
  /\ \E r \in rates : Outside([op |-> "changeTps", rate |-> r])

EndLoop ==
  /\ pc = "idle"
  /\ Outside([op |-> "endLoop"])

\* ------------------------------------------------------------------ _update
\* Mutant: the elapsed time taken as lastTime - timestamp.
TickGain_Reversed(tps, deltaTime) == tps * (0 - deltaTime)

\* (this._ticksPerSecond * deltaTime) / 1000, in thousandths of a tick.
TickGain(tps, deltaTime) == tps * deltaTime

UnpausedTimestamp(paused, unpausedTimestamp, timestamp) ==
  IF paused THEN unpausedTimestamp ELSE timestamp

UnpausedLastTime(paused, unpausedLastTime, lastTime) ==
  IF paused THEN unpausedLastTime ELSE lastTime

\* Mutant: the frame's own delta even while paused.
UnpausedDeltaTime_Always(paused, unpausedTimestamp, unpausedLastTime, deltaTime) ==
  deltaTime

\* Reads the _unpausedTimestamp and _unpausedLastTime just assigned.
UnpausedDeltaTime(paused, unpausedTimestamp, unpausedLastTime, deltaTime) ==
  IF paused THEN unpausedTimestamp - unpausedLastTime ELSE deltaTime

\* Mutant: the unpaused accumulator advanced while paused too.
UnpausedTicks_AlsoPaused(paused, unpausedTicks, tps, unpausedDeltaTime) ==
  unpausedTicks + TickGain(tps, unpausedDeltaTime)

UnpausedTicks(paused, unpausedTicks, tps, unpausedDeltaTime) ==
  IF paused THEN unpausedTicks
            ELSE unpausedTicks + TickGain(tps, unpausedDeltaTime)

\* get stats()
Stats == [ticks |-> _ticks, ticksUnpaused |-> _unpausedTicks,
          tps |-> _ticksPerSecond]

\* The rate _update multiplies by.
UpdateRate == _ticksPerSecond

\* How a callback's call ended, as the history records it.
Outcome(b, ret) ==
  IF b = Throw THEN "throw" ELSE IF ret THEN "true" ELSE "false"

FramesQuiet(q) == IF q \in {0, 1} THEN q + 1 ELSE -1
CallQuiet(q, b, ret) == IF b = Quiet /\ ret THEN q ELSE -1

\* The call of a callback behaving as b, with the history of the pass kept.
Called(w, b) ==
  LET w1 == Apply(w, b)
  IN  IF b.op \in {"removeEvent", "removeEventAll"}
        THEN [w1 EXCEPT !.iter = [w1.iter EXCEPT !.removed = TRUE]]
        ELSE w1

\* The place (from 1) of the event object of identity id in arr, 0 if absent.
IndexOf(arr, id) ==
  IF \E k \in 1..Len(arr) : arr[k].id = id
    THEN CHOOSE k \in 1..Len(arr) : arr[k].id = id
    ELSE 0

\* The event an action's call b steps the iterator over: the action runs for
\* the event at registry position j (from 0) and b is removeEvent(i) with
\* 0 <= i <= j; the event at position j + 1, when there is one.
SteppedOver(w, b) ==
  LET at == IndexOf(w.events, w.iter.event.id)
  IN  IF /\ b.op = "removeEvent"
         /\ ~w.iter.detached
         /\ at > 0
         /\ at < Len(w.events)
         /\ 0 <= b.index
         /\ b.index <= at - 1
        THEN {w.events[at + 1].id}
        ELSE {}

\* The call of an action behaving as b, with the history of the pass kept.
CalledByAction(w, b) ==
  LET w1 == Called(w, b)
  IN  [w1 EXCEPT !.iter =
         [w1.iter EXCEPT !.cleared = w1.iter.cleared \/ b.op = "removeEventAll",
                         !.skipped = w1.iter.skipped \cup SteppedOver(w, b)]]

\* Mutant: the first frame treated as any other.
HasPrevious_Always(lastTime) == TRUE

\* this._lastTime > 0: the test _update makes for "not the first frame".
HasPrevious(lastTime) == lastTime > 0

\* The host runs a pending callback: _update(timestamp) up to the loop.
UpdateBegin(stamps) ==
  /\ pc = "idle"
  /\ rafCount < MaxRequests
  /\ \E h \in rafPending, timestamp \in stamps :
       /\ timestamp >= _lastTime
       /\ rafPending' = rafPending \ {h}
       /\ stampHanded' = timestamp
       /\ IF HasPrevious(_lastTime)
            THEN LET deltaTime == timestamp - _lastTime
                     uts == UnpausedTimestamp(_paused, _unpausedTimestamp, timestamp)
                     ult == UnpausedLastTime(_paused, _unpausedLastTime, _lastTime)
                     udt == UnpausedDeltaTime(_paused, uts, ult, deltaTime)
                 IN  /\ _ticks' = _ticks + TickGain(UpdateRate, deltaTime)
                     /\ _unpausedTimestamp' = uts
                     /\ _unpausedLastTime' = ult
                     /\ _unpausedDeltaTime' = udt
                     /\ _unpausedTicks' =
                          UnpausedTicks(_paused, _unpausedTicks, UpdateRate, udt)
            ELSE UNCHANGED <<_ticks, _unpausedTimestamp, _unpausedLastTime,
                             _unpausedDeltaTime, _unpausedTicks>>
       /\ _lastTime' = timestamp
  /\ pc' = "loop"
  /\ iter' = NoIter
  /\ log' = <<>>
  /\ gateOpen' = {}
  /\ quiet' = IF quiet \in {0, 1} THEN quiet ELSE -1
  /\ UNCHANGED <<_optionsTps, _requestAnimationFrameId, _paused, _ticksPerSecond,
                 _events, rafCount, nextId, ended, threw, fired, refired>>

\* The array the for...of loop iterates.
IterArr(w) == IF w.iter.detached THEN w.iter.arr ELSE w.events

\* Mutant: the pause flag not consulted.
Gate_IgnoresPause(ret, paused) == ret

\* event.condition() && !this._paused
Gate(ret, paused) == ret /\ ~paused

\* Mutant: the negation of runWhile lost.
StillSatisfied_NotNegated(e) == e._isActive /\ e.runWhile

\* Mutant: runWhile not consulted.
StillSatisfied_AnyActive(e) == e._isActive

\* Mutant: the pass never stops at an event.
StillSatisfied_Never(e) == FALSE

\* event._isActive && !event.runWhile
StillSatisfied(e) == e._isActive /\ ~e.runWhile

\* Mutant: the flag left as it was.
SetAndContinue_Keeps(w, id, v) ==
  [w EXCEPT !.iter = [w.iter EXCEPT !.event = NoEvent], !.pc = "loop"]

\* event._isActive = v, and the loop goes to its next iteration.
SetAndContinue(w, id, v) ==
  [w EXCEPT !.events = SetActive(w.events, id, v),
            !.iter = [w.iter EXCEPT !.arr = SetActive(w.iter.arr, id, v),
                                    !.event = NoEvent],
            !.pc = "loop"]

\* Mutant: the iterator steps over an element.
Fetch_SkipsOne(w) ==
  [w EXCEPT !.iter = [w.iter EXCEPT !.event = IterArr(w)[w.iter.idx + 1],
                                    !.idx = w.iter.idx + 2]]

\* The iterator yields its next element into the loop variable.
Fetch(w) ==
  [w EXCEPT !.iter = [w.iter EXCEPT !.event = IterArr(w)[w.iter.idx + 1],
                                    !.idx = w.iter.idx + 1]]

\* Mutant: the pass ends without requesting the next frame.
Finish_NoRequest(w) == [w EXCEPT !.iter = NoIter, !.pc = "idle"]

\* The lines after the loop: the next frame is requested.
Finish(w) == [Request(w) EXCEPT !.iter = NoIter, !.pc = "idle"]

\* Mutant: the next frame requested although a callback threw.
Abort_Requests(w) == [Request(w) EXCEPT !.iter = NoIter, !.pc = "idle"]

\* An exception leaves _update: nothing after the throwing call runs.
Abort(w) == [w EXCEPT !.iter = NoIter, !.pc = "idle"]

\* One iteration of the loop, up to the call of event.action(): the
\* condition is called (behaving as cb and returning ret) and tested.
UpdateCondition(behaviours) ==
  /\ pc = "loop"
  /\ iter.idx < Len(IterArr(World))
  /\ LET w0 == Fetch(World)
         e == w0.iter.event
     IN
     \E cb \in behaviours, ret \in BOOLEAN :
       /\ cb = Throw => ret
       /\ CanCall(w0, cb)
       /\ log' = Append(log, <<"condition", e.id, Outcome(cb, ret)>>)
       /\ gateOpen' = IF cb # Throw /\ ~Called(w0, cb).paused
                         THEN gateOpen \cup {e.id}
                         ELSE gateOpen
       /\ IF cb = Throw
            THEN /\ Store(Abort(w0))
                 /\ threw' = TRUE
                 /\ quiet' = -1
                 /\ fired' = fired \cap Live(Abort(w0))
            ELSE LET w1 == Called(w0, cb)
                 IN  IF Gate(ret, w1.paused)
                       THEN IF StillSatisfied(e)
                              THEN /\ Store(Finish(w1))
                                   /\ quiet' = FramesQuiet(CallQuiet(quiet, cb, ret))
                                   /\ fired' = fired \cap Live(Finish(w1))
                                   /\ UNCHANGED threw
                              ELSE /\ Store([w1 EXCEPT !.pc = "action"])
                                   /\ quiet' = CallQuiet(quiet, cb, ret)
                                   /\ fired' = fired \cap Live(w1)
                                   /\ UNCHANGED threw
                       ELSE /\ Store(SetAndContinue(w1, e.id, FALSE))
                            /\ fired' = (IF ret THEN fired ELSE fired \ {e.id})
                                          \cap Live(SetAndContinue(w1, e.id, FALSE))
                            /\ quiet' = CallQuiet(quiet, cb, ret)
                            /\ UNCHANGED threw
  /\ UNCHANGED <<timing, refired>>

\* The rest of the iteration: event.action() is called (behaving as ab),
\* then event._isActive = true.
UpdateAction(behaviours) ==
  /\ pc = "action"
  /\ LET e == iter.event
     IN
     \E ab \in behaviours :
       /\ CanCall(World, ab)
       /\ log' = Append(log, <<"action", e.id, Outcome(ab, TRUE)>>)
       /\ refired' = (refired \/ (e.id \in fired /\ ~e.runWhile))
       /\ IF ab = Throw
            THEN /\ Store(Abort(World))
                 /\ fired' = (fired \cup {e.id}) \cap Live(Abort(World))
                 /\ threw' = TRUE
                 /\ quiet' = -1
            ELSE /\ Store(SetAndContinue(CalledByAction(World, ab), e.id, TRUE))
                 /\ fired' = (fired \cup {e.id})
                               \cap Live(SetAndContinue(CalledByAction(World, ab),
                                                        e.id, TRUE))
                 /\ quiet' = CallQuiet(quiet, ab, TRUE)
                 /\ UNCHANGED threw
  /\ UNCHANGED <<timing, gateOpen>>

\* The iterator is exhausted: the lines after the loop.
UpdateEnd ==
  /\ pc = "loop"
  /\ iter.idx >= Len(IterArr(World))
  /\ Store(Finish(World))
  /\ quiet' = FramesQuiet(quiet)
  /\ fired' = fired \cap Live(Finish(World))
  /\ UNCHANGED <<timing, threw, log, refired, gateOpen>>

\* ----------------------------------------------------------- specifications
\* Inputs of Spec: no rate given at construction, changeTps called with the
\* default rate, and a host clock one millisecond further at each frame.
LoopGivens == {Undefined}
LoopRates == {DefaultTicksPerSecond}
LoopStamps == {_lastTime + 1}

Next ==
  \/ ConstructFails
  \/ Construct(LoopGivens)
  \/ AddEvent(RunWhileArgs)
  \/ RemoveEvent(RemoveIndices)
  \/ RemoveEventAll
  \/ PauseGame
  \/ ResumeGame
  \/ ChangeTps(LoopRates)
  \/ EndLoop
  \/ UpdateBegin(LoopStamps)
  \/ UpdateCondition(Behaviours(LoopRates))
  \/ UpdateAction(Behaviours(LoopRates))
  \/ UpdateEnd

Spec == Init /\ [][Next]_vars

\* Inputs of SpecClock: any rate or none at construction, any rate for
\* changeTps, any timestamp not before the last one; events registered
\* without runWhile and removed from the front, whose callbacks call nothing.
ClockGivens == {Some(r) : r \in Rates} \cup {Undefined}
ClockStamps == Timestamps
ClockRunWhile == {Undefined}
ClockIndices == {0}
ClockBehaviours == {Quiet}

NextClock ==
  \/ Construct(ClockGivens)
  \/ AddEvent(ClockRunWhile)
  \/ RemoveEvent(ClockIndices)
  \/ RemoveEventAll
  \/ PauseGame
  \/ ResumeGame
  \/ ChangeTps(Rates)
  \/ EndLoop
  \/ UpdateBegin(ClockStamps)
  \/ UpdateCondition(ClockBehaviours)
  \/ UpdateAction(ClockBehaviours)
  \/ UpdateEnd

SpecClock == Init /\ [][NextClock]_vars

\* ------------------------------------------------------------------ claims
\* The calls of `kind` ("condition" or "action") on event id in the log.
CallsIn(l, kind, id) ==
  Cardinality({i \in 1..Len(l) : l[i][1] = kind /\ l[i][2] = id})

CallsOf(kind, id) == CallsIn(log, kind, id)

\* A pass over the events ends in this step, however it ends.
FrameEnds == pc \in {"loop", "action"} /\ pc' = "idle"

\* The host runs the frame callback in this step.
FrameBegins == pc = "idle" /\ pc' = "loop"

\* The registry holds one event, a one-shot, registered from outside the
\* frame callback k frames ago; since then nothing else was called and its
\* condition returned true every time.
LoneOneShot(k) ==
  /\ pc = "idle"
  /\ quiet = k
  /\ Len(_events) = 1
  /\ ~_events[1].runWhile

\* C1 as stated: a lone one-shot event with an always-true condition has its
\* action invoked on the first frame after registration and not on the second.
C1_Claim ==
  /\ LoneOneShot(1) => CallsOf("action", _events[1].id) = 1
  /\ LoneOneShot(2) => CallsOf("action", _events[1].id) = 0

\* C1 amended: the same, for a loop that is not paused.
C1_FirstFrameOnly ==
  /\ (LoneOneShot(1) /\ ~_paused) => CallsOf("action", _events[1].id) = 1
  /\ (LoneOneShot(2) /\ ~_paused) => CallsOf("action", _events[1].id) = 0

C1_Witness ==
  /\ LoneOneShot(2)
  /\ ~_paused
  /\ _events[1]._isActive
  /\ log = <<<<"condition", _events[1].id, "true">>>>

\* C2 as stated: once a one-shot event's action has been invoked, it is not
\* invoked again before its condition has returned false.
C2_Claim == ~refired

\* The pass is about to evaluate the only registered event, which has
\* runWhile = true, and its condition returns true in this step.
LoneRunWhileTrue ==
  /\ pc = "loop"
  /\ iter.idx = 0
  /\ ~iter.detached
  /\ Len(_events) = 1
  /\ _events[1].runWhile
  /\ log' = Append(log, <<"condition", _events[1].id, "true">>)

\* C3 as stated: a lone runWhile event whose condition returns true has its
\* action invoked on every frame, in every reachable state.
C3_Claim == [][LoneRunWhileTrue => pc' = "action"]_vars

\* C3 amended: on every frame on which the loop is not paused when the
\* condition returns.
C3_EveryUnpausedFrame ==
  [][(LoneRunWhileTrue /\ ~_paused') => pc' = "action"]_vars

C3_Witness ==
  /\ pc = "action"
  /\ iter.event.runWhile
  /\ iter.event._isActive
  /\ Len(_events) = 1
  /\ _events[1] = iter.event

\* C4 as stated: after endLoop, no frame is requested and none is evaluated.
C4_Claim == [][ended => (rafCount' = rafCount /\ ~FrameBegins)]_vars

\* C5 as stated: in every frame, the condition of every registered event is
\* evaluated exactly once.
C5_Claim ==
  [][FrameEnds =>
       \A i \in 1..Len(_events') : CallsIn(log', "condition", _events'[i].id) = 1]_vars

\* C5 amended: no condition is evaluated twice in a frame, and every
\* registered event's condition is evaluated exactly once in a frame whose
\* pass reaches the end of the registry (no break, no throw) and in which no
\* callback removes events.
C5_OncePerFullPass ==
  [][FrameEnds =>
       /\ \A id \in 1..MaxIds : CallsIn(log', "condition", id) <= 1
       /\ (pc = "loop" /\ iter.idx >= Len(IterArr(World)) /\ ~iter.removed) =>
            \A i \in 1..Len(_events') :
              CallsIn(log', "condition", _events'[i].id) = 1]_vars

C5_Witness ==
  /\ pc = "idle"
  /\ Len(_events) = 2
  /\ Len(log) >= 2
  /\ \A i \in 1..2 : CallsOf("condition", _events[i].id) = 1

\* ids of a sequence of events, or of log entries, strictly increase.
Increasing(seq, idOf(_)) ==
  \A i, j \in 1..Len(seq) : i < j => idOf(seq[i]) < idOf(seq[j])

EventId(e) == e.id
EntryId(x) == x[2]
ConditionCalls == SelectSeq(log, LAMBDA x : x[1] = "condition")

C7_Claim ==
  [][(FrameBegins /\ _lastTime > 0) =>
       _ticks' = _ticks + TickGain(_optionsTps, _lastTime' - _lastTime)]_vars

\* C8 as stated: stats.tps is the configured rate right after construction,
\* and the rate given to changeTps once a frame has been evaluated after it.
C8_Claim ==
  [][/\ (pc = "start" /\ pc' = "idle") => Stats.tps' = _optionsTps'
     /\ pc' \in {"loop", "action"} => Stats.tps' = _optionsTps']_vars

\* C9: with a positive tick rate stats.ticks never decreases, paused or not,
\* and only the frame callback changes it.
C9_TicksMonotone ==
  [][/\ _ticksPerSecond > 0 => Stats.ticks' >= Stats.ticks
     /\ ~FrameBegins => Stats.ticks' = Stats.ticks]_vars

C9_Witness ==
  /\ pc = "loop"
  /\ _paused
  /\ _ticksPerSecond > 0
  /\ Stats.ticks > Stats.ticksUnpaused
  /\ Stats.ticksUnpaused > 0

\* C10: a frame evaluated while paused leaves the unpaused accumulator and
\* the unpaused timestamp, last time and delta as they were.
C10_PausedFrameFreezes ==
  [][(FrameBegins /\ _paused) =>
       UNCHANGED <<_unpausedTicks, _unpausedTimestamp, _unpausedLastTime,
                   _unpausedDeltaTime>>]_vars

C10_Witness ==
  /\ pc = "loop"
  /\ _paused
  /\ _unpausedTimestamp > 0
  /\ _unpausedDeltaTime > 0
  /\ _lastTime > _unpausedTimestamp

\* A call of removeEvent(i), or of addEvent with runWhile r, made between
\* frames in this step.
RemoveEventCall(i) == pc = "idle" /\ Outside([op |-> "removeEvent", index |-> i])
AddEventCall(r) == pc = "idle" /\ Outside([op |-> "addEvent", runWhile |-> r])

\* C11 as stated: removeEvent(i) with i outside [0, length) leaves the
\* registry unchanged, and removeEvent(0) empties a registry of length 1.
C11_Claim ==
  [][\A i \in RemoveIndices :
       RemoveEventCall(i) =>
         /\ (i < 0 \/ i >= Len(_events)) => _events' = _events
         /\ (i = 0 /\ Len(_events) = 1) => _events' = <<>>]_vars

\* C12: addEvent appends exactly one event at the end of the registry: the
\* events already there keep their place and their flags, and the new event
\* has _isActive = false and the runWhile given, or false when none is given.
C12_AddEventAppends ==
  [][\A r \in RunWhileArgs :
       AddEventCall(r) =>
         /\ Len(_events') = Len(_events) + 1
         /\ SubSeq(_events', 1, Len(_events)) = _events
         /\ ~_events'[Len(_events')]._isActive
         /\ _events'[Len(_events')].runWhile = (r = Some(TRUE))]_vars

C12_Witness ==
  /\ pc = "idle"
  /\ quiet = 0
  /\ Len(_events) = 2
  /\ _events[1]._isActive
  /\ ~_events[2]._isActive
  /\ ~_events[2].runWhile

\* C13: a successful construction issues exactly one frame request and
\* leaves ticks = 0, ticksUnpaused = 0, paused = false and no events.
C13_ConstructionState ==
  [][(pc = "start" /\ pc' = "idle") =>
       /\ rafCount' = rafCount + 1
       /\ rafPending' = {_requestAnimationFrameId'}
       /\ Stats.ticks' = 0
       /\ Stats.ticksUnpaused' = 0
       /\ ~_paused'
       /\ _events' = <<>>]_vars

C13_Witness ==
  /\ pc = "idle"
  /\ rafCount = 1
  /\ rafPending = {1}
  /\ _lastTime = 0
  /\ nextId = 1
  /\ ~ended

\* C14: a construction without the `window` global fails before any frame
\* request is issued.
C14_FailsBeforeRequest == pc = "failed" => (rafCount = 0 /\ rafPending = {})

C14_Witness == pc = "failed" /\ rafCount = 0

\* The event the pass evaluates next.
NextEvent == IterArr(World)[iter.idx + 1]
PassHasNext == pc = "loop" /\ iter.idx < Len(IterArr(World))

\* C15: when the pass reaches an event with _isActive = true and runWhile =
\* false whose condition returns true while the loop is not paused, the pass
\* stops there: its action is not invoked, and no event registered after it
\* has its condition or action invoked or its _isActive flag changed.
C15_OneShotBlocks ==
  [][(/\ PassHasNext
      /\ NextEvent._isActive
      /\ ~NextEvent.runWhile
      /\ log' = Append(log, <<"condition", NextEvent.id, "true">>)
      /\ ~_paused') =>
       /\ pc' = "idle"
       /\ CallsIn(log', "action", NextEvent.id) = 0
       /\ \A id \in (NextEvent.id + 1)..MaxIds :
            /\ CallsIn(log', "condition", id) = 0
            /\ CallsIn(log', "action", id) = 0
       /\ \A i \in 1..Len(_events), j \in 1..Len(_events') :
            (_events[i].id = _events'[j].id /\ _events[i].id > NextEvent.id) =>
              _events'[j]._isActive = _events[i]._isActive]_vars

C15_Witness ==
  /\ pc = "idle"
  /\ ~_paused
  /\ Len(_events) = 2
  /\ _events[1]._isActive
  /\ ~_events[1].runWhile
  /\ _events[2]._isActive
  /\ log = <<<<"condition", _events[1].id, "true">>>>

\* C16: while the loop is paused no action is invoked, whatever the
\* condition returns and whatever runWhile is, and the pass still calls the
\* condition of the event it has reached.
C16_PausedNoAction ==
  [][/\ pc' = "action" => ~_paused'
     /\ (PassHasNext /\ _paused /\ _paused') =>
          /\ pc' # "action"
          /\ Len(log') = Len(log) + 1
          /\ log'[Len(log')][1] = "condition"
          /\ log'[Len(log')][2] = NextEvent.id]_vars

C16_Witness ==
  /\ pc = "idle"
  /\ _paused
  /\ gateOpen = {}
  /\ Len(_events) = 1
  /\ _events[1].runWhile
  /\ ~_events[1]._isActive
  /\ log = <<<<"condition", _events[1].id, "true">>>>

\* A frame other than the first one after construction begins in this step
\* (the constructor makes the first request, every completed frame one more).
LaterFrameBegins == FrameBegins /\ rafCount > 1

\* C17 as stated: every frame but the first adds rate * (timestamp - previous
\* timestamp) / 1000 to ticks, paused or not, whatever the first timestamp.
C17_Claim ==
  [][LaterFrameBegins =>
       _ticks' = _ticks + TickGain(UpdateRate, _lastTime' - _lastTime)]_vars

\* C18 as stated: every frame but the first that is evaluated while not
\* paused adds rate * (timestamp - previous timestamp) / 1000 to the unpaused
\* ticks, whether or not the previous frame was evaluated while paused.
C18_Claim ==
  [][(LaterFrameBegins /\ ~_paused) =>
       _unpausedTicks' =
         _unpausedTicks + TickGain(UpdateRate, _lastTime' - _lastTime)]_vars

\* A frame evaluation completes in this step: _update reaches its last
\* statement, the request of the next frame.
FrameCompletes == FrameEnds /\ rafCount' = rafCount + 1

\* Every event of evs whose condition was called in the frame logged as l is
\* active exactly when that condition returned true while the loop was not
\* paused (open: the events evaluated while not paused).
FlagsFollowGate(evs, l, open) ==
  \A i \in 1..Len(evs) :
    CallsIn(l, "condition", evs[i].id) > 0 =>
      (evs[i]._isActive <=>
         /\ \E k \in 1..Len(l) : l[k] = <<"condition", evs[i].id, "true">>
         /\ evs[i].id \in open)

\* The frame was evaluated while paused: paused at its end and whenever a
\* condition returned.
PausedFrame == _paused' /\ gateOpen' = {}

\* C19 as stated: after a frame that completes, an evaluated event is active
\* exactly when its condition returned true while the loop was not paused,
\* and a frame evaluated while paused leaves every registered event inactive.
C19_Claim ==
  [][FrameCompletes =>
       /\ FlagsFollowGate(_events', log', gateOpen')
       /\ PausedFrame => \A i \in 1..Len(_events') : ~_events'[i]._isActive]_vars

\* C19 amended: the same, where a frame evaluated while paused leaves every
\* registered event inactive provided no callback removed events during it.
C19_FlagsFollowGate ==
  [][FrameCompletes =>
       /\ FlagsFollowGate(_events', log', gateOpen')
       /\ (PausedFrame /\ ~iter.removed) =>
            \A i \in 1..Len(_events') : ~_events'[i]._isActive]_vars

C19_Witness ==
  /\ pc = "idle"
  /\ _paused
  /\ Len(_events) = 2
  /\ gateOpen = {_events[1].id}
  /\ _events[1]._isActive
  /\ ~_events[2]._isActive
  /\ CallsOf("condition", _events[2].id) = 1
  /\ log[Len(log)] = <<"condition", _events[2].id, "true">>

\* C20: at most one frame request is pending in any state, and until endLoop
\* is called or a callback throws exactly one is pending whenever the
\* instance exists and no frame is being evaluated.
C20_OnePending ==
  /\ Cardinality(rafPending) <= 1
  /\ (pc = "idle" /\ ~ended /\ ~threw) => Cardinality(rafPending) = 1

C20_Witness ==
  /\ pc = "idle"
  /\ ~ended
  /\ ~threw
  /\ _paused
  /\ rafCount = 3
  /\ rafPending = {3}

\* A callback throws in this step.
ThrowStep == ~threw /\ threw'

\* C21: a throw from a condition or an action leaves _update at once: no
\* later-registered event is evaluated in that frame, no _isActive flag is
\* assigned, ticks and _lastTime keep the values the frame gave them, no
\* frame is requested, and no frame is evaluated ever after.
C21_ThrowStopsLoop ==
  [][/\ ThrowStep =>
          /\ pc' = "idle"
          /\ log'[Len(log')][3] = "throw"
          /\ \A id \in (log'[Len(log')][2] + 1)..MaxIds :
               /\ CallsIn(log', "condition", id) = 0
               /\ CallsIn(log', "action", id) = 0
          /\ _events' = _events
          /\ _lastTime = stampHanded
          /\ UNCHANGED <<_ticks, _lastTime>>
          /\ rafCount' = rafCount
          /\ rafPending' = {}
     /\ threw => (~FrameBegins /\ rafCount' = rafCount /\ rafPending' = {})]_vars

C21_Witness ==
  /\ threw
  /\ pc = "idle"
  /\ rafPending = {}
  /\ _ticks > 0
  /\ Len(_events) = 2
  /\ ~_events[1]._isActive
  /\ log = <<<<"condition", _events[1].id, "true">>,
             <<"action", _events[1].id, "throw">>>>

\* A call of pauseGame, or of resumeGame, made between frames in this step.
PauseCall == pc = "idle" /\ Outside([op |-> "pauseGame"])
ResumeCall == pc = "idle" /\ Outside([op |-> "resumeGame"])

\* The fields of the instance and the host's requests, but for _paused.
AllButPaused ==
  <<_optionsTps, _requestAnimationFrameId, _lastTime, _ticks, _ticksPerSecond,
    _events, _unpausedTimestamp, _unpausedLastTime, _unpausedDeltaTime,
    _unpausedTicks, rafPending, rafCount>>

\* C22: pauseGame and resumeGame assign the paused flag and nothing else (no
\* request cancelled or added; registry, flags, _lastTime and both
\* accumulators unchanged), and a second call in a row changes nothing.
C22_OnlyPausedFlag ==
  [][/\ PauseCall => (_paused' /\ UNCHANGED AllButPaused)
     /\ ResumeCall => (~_paused' /\ UNCHANGED AllButPaused)
     /\ pauseGame(pauseGame(World)) = pauseGame(World)
     /\ resumeGame(resumeGame(World)) = resumeGame(World)]_vars

C22_Witness ==
  /\ pc = "idle"
  /\ _paused
  /\ ~ended
  /\ log = <<>>
  /\ quiet = -1
  /\ Len(_events) = 1
  /\ _events[1]._isActive
  /\ rafPending = {rafCount}
  /\ _ticks > 0

\* C23: the first frame after construction leaves both accumulators at 0 and
\* stores the timestamp it was handed in _lastTime; its pass still calls the
\* condition of every event it reaches, and an event whose condition returns
\* true while the loop is not paused has its action invoked.
C23_FirstFrame ==
  [][/\ (FrameBegins /\ rafCount = 1) =>
          /\ Stats.ticks' = 0
          /\ Stats.ticksUnpaused' = 0
          /\ _lastTime' = stampHanded'
     /\ (rafCount = 1 /\ PassHasNext) =>
          /\ Len(log') = Len(log) + 1
          /\ log'[Len(log')][1] = "condition"
          /\ log'[Len(log')][2] = NextEvent.id
          /\ (log'[Len(log')][3] = "true" /\ ~_paused') => pc' = "action"]_vars

C23_Witness ==
  /\ pc = "action"
  /\ rafCount = 1
  /\ stampHanded = 2
  /\ _lastTime = 2
  /\ _ticks = 0
  /\ _unpausedTicks = 0

\* A call of removeEventAll made between frames in this step.
RemoveAllCall == pc = "idle" /\ Outside([op |-> "removeEventAll"])

\* C24 as stated: when removeEventAll returns, called between frames or by
\* an action during a frame, the registry is empty, and no condition or
\* action of an event registered before the call is invoked afterwards (the
\* events a pass still reaches after an action cleared the registry were all
\* registered before the call).
C24_Claim ==
  [][/\ RemoveAllCall => _events' = <<>>
     /\ (pc = "action" /\ iter'.cleared /\ ~iter.cleared) => _events' = <<>>
     /\ iter.cleared => Len(log') <= Len(log)]_vars

\* The identities of the events of arr.
Ids(arr) == {arr[k].id : k \in 1..Len(arr)}

\* The _isActive flag of event id is the same before and after this step,
\* where the event is registered at both ends.
FlagKept(id) ==
  \A k \in 1..Len(_events), l \in 1..Len(_events') :
    (_events[k].id = id /\ _events'[l].id = id) =>
      _events'[l]._isActive = _events[k]._isActive

C27_UnpausedWithinTicks ==
  [][/\ _ticksPerSecond > 0 =>
          (0 <= Stats.ticksUnpaused' /\ Stats.ticksUnpaused' <= Stats.ticks')
     /\ (~_paused /\ Stats.ticksUnpaused = Stats.ticks) =>
          Stats.ticksUnpaused' = Stats.ticks']_vars

C27_Witness ==
  /\ pc = "idle"
  /\ ~_paused
  /\ _ticksPerSecond = 2
  /\ Stats.ticks = 4
  /\ Stats.ticksUnpaused = 4
  /\ _unpausedTimestamp = _lastTime

====
